---- MODULE Spec2Model ----
(***************************************************************************)
(* Model of app/src/lib/git/checkout.ts: checkoutBranch, getCheckoutArgs   *)
(* and checkoutPaths, with the collaborators they call (git,               *)
(* gitNetworkArguments, executionOptionsWithProgress,                      *)
(* CheckoutProgressParser, enableRecurseSubmodulesFlag,                    *)
(* initAndUpdateSubmodules) modelled at their boundary.                    *)
(*                                                                         *)
(* One in-flight call is a position (pc) in the async function; every      *)
(* `await` of the source is a place where the call is suspended and        *)
(* another step of the model may happen.                                   *)
(***************************************************************************)
EXTENDS Integers, Sequences, FiniteSets, TLC

\* ---------------------------------------------------------------- bounds
\* status lines one subprocess may write
MaxLines == 3
\* the percentages a status line may carry are 0..MaxPercent
MaxPercent == 2
\* status lines one subprocess may write when two calls are in flight
MaxLinesTwo == 2
\* number of paths handed to checkoutPaths
MaxPaths == 2

\* The identities of the calls. Every variable below except the feature
\* toggle is a function of the call, so calls share nothing but the toggle;
\* Spec follows call 1 through every input, call 2 stays idle in it.
Calls == {1, 2}

VARIABLES
    recurseSubmodulesFlag, \* the process-wide feature toggle
    pc,            \* call -> position in checkoutBranch / checkoutPaths
    op,            \* call -> "none" | "checkoutBranch" | "checkoutPaths"
    branch,        \* call -> the Branch argument
    account,       \* call -> the account argument (NoAccount for null)
    sink,          \* call -> TRUE iff progressCallback was supplied
    opts,          \* call -> the IGitExecutionOptions local `opts`
    parser,        \* call -> state of the call's CheckoutProgressParser
    args,          \* call -> the local `args`
    events,        \* call -> sequence of events progressCallback received
    outputs,       \* call -> sequence of parser outputs of the call
    lines,         \* call -> number of status lines the subprocess wrote
    gitCalls,      \* call -> sequence of invocations of git()
    submoduleCalls,\* call -> number of invocations of initAndUpdateSubmodules
    flagReads,     \* call -> number of reads of enableRecurseSubmodulesFlag
    paths,         \* call -> the paths argument of checkoutPaths
    submodules,    \* call -> "none" | "running" | "ok" | "failed"
    exit,          \* call -> exit code and stderr of the call's subprocess
    result         \* call -> how the promise of the call settled

vars == <<recurseSubmodulesFlag, pc, op, branch, account, sink, opts, parser,
          args, events, outputs, lines, gitCalls, submoduleCalls, flagReads,
          paths, submodules, exit, result>>

\* ------------------------------------------------------------ data model
NoAccount == [login |-> "null"]
Accounts == {NoAccount, [login |-> "octocat"]}

Local == "Local"
Remote == "Remote"

Branches ==
    { [name |-> "main", type |-> Local, nameWithoutRemote |-> "main"],
      [name |-> "origin/feature-x", type |-> Remote,
       nameWithoutRemote |-> "feature-x"] }

NoBranch == [name |-> "", type |-> Local, nameWithoutRemote |-> ""]

PathNames == {"a.txt", "b/c.txt"}

RECURSIVE SeqsUpTo(_, _)
SeqsUpTo(S, n) ==
    IF n = 0 THEN {<<>>}
    ELSE LET shorter == SeqsUpTo(S, n - 1)
         IN  shorter \cup
             {Append(s, x) : s \in {t \in shorter : Len(t) = n - 1}, x \in S}

PathLists == SeqsUpTo(PathNames, MaxPaths)

\* --------------------------------------------------------- collaborators
\* AuthenticationErrors of ./authentication: the recognized signatures.
AuthenticationErrors ==
    {"SSHPermissionDenied", "HTTPSAuthenticationFailed"}

\* envForAuthentication(account)
envForAuthentication(a) == [set |-> TRUE, user |-> a.login]

\* gitNetworkArguments(repository, account): the transport arguments.
gitNetworkArguments(a) == <<"-c", "credential.helper=">>

\* What the subprocess can write on stderr, and the signature (if any) the
\* process-execution collaborator recognizes in it.
Stderrs ==
    {"", "Permission denied (publickey)", "fatal: Authentication failed",
     "error: pathspec did not match"}

parseError(stderr) ==
    CASE stderr = "Permission denied (publickey)" -> "SSHPermissionDenied"
      [] stderr = "fatal: Authentication failed" -> "HTTPSAuthenticationFailed"
      [] OTHER -> "none"

ExitCodes == {0, 1, 128}

\* git(args, path, name, opts): how the awaited promise settles for a
\* subprocess that ended with exitCode and stderr.
git(o, exitCode, stderr) ==
    IF exitCode = 0 THEN [kind |-> "ok"]
    ELSE IF parseError(stderr) \in o.expectedErrors
    THEN [kind |-> "AuthenticationError", reason |-> parseError(stderr)]
    ELSE [kind |-> "GitCommandError", exitCode |-> exitCode,
          stderr |-> stderr]

\* The status lines a checkout subprocess may write: a recognized progress
\* line carrying a percentage, or any other chatter.
StatusLines ==
    {[text |-> "Checking out files: " \o ToString(p) \o "%", pct |-> p,
      known |-> TRUE] : p \in 0..MaxPercent}
    \cup {[text |-> "Switched to branch", pct |-> 0, known |-> FALSE]}

\* new CheckoutProgressParser(): nothing emitted yet.
NewParser == [last |-> 0]
NoParser == [last |-> -1]

Max(a, b) == IF a >= b THEN a ELSE b

\* CheckoutProgressParser.parse(line): a recognized line yields an output of
\* kind "progress" whose percent never regresses below the last one emitted;
\* any other line yields an output of kind "context".
parse(p, line) ==
    IF line.known
    THEN [kind |-> "progress", percent |-> Max(line.pct, p.last),
          details |-> [text |-> line.text]]
    ELSE [kind |-> "context", percent |-> p.last,
          details |-> [text |-> line.text]]

parserAfter(p, line) ==
    IF line.known THEN [last |-> Max(line.pct, p.last)] ELSE p

\* executionOptionsWithProgress(options, parser, callback), when its promise
\* resolves: the options with the parser attached to the subprocess's status
\* stream. Its promise may also reject (OptionsRejected).
executionOptionsWithProgress(o) == [o EXCEPT !.processCallback = TRUE]

\* ------------------------------------------------------- checkout.ts code
Title(b) == "Checking out branch " \o b.name

\* InitialOpts with LFS tracking switched on for every call
InitialOptsTracksLFS(a) ==
    [env |-> envForAuthentication(a),
     expectedErrors |-> AuthenticationErrors,
     trackLFSProgress |-> TRUE,
     processCallback |-> FALSE]

\* InitialOpts with the expected errors forgotten
InitialOptsNoExpectedErrors(a) ==
    [env |-> envForAuthentication(a),
     expectedErrors |-> {},
     trackLFSProgress |-> FALSE,
     processCallback |-> FALSE]

\* let opts = { env: envForAuthentication(account), expectedErrors: ... }
InitialOpts(a) ==
    [env |-> envForAuthentication(a),
     expectedErrors |-> AuthenticationErrors,
     trackLFSProgress |-> FALSE,
     processCallback |-> FALSE]

\* opts = await executionOptionsWithProgress({...opts, trackLFSProgress:
\* true}, new CheckoutProgressParser(), progress => ...)
ProgressOpts(o) ==
    executionOptionsWithProgress([o EXCEPT !.trackLFSProgress = TRUE])

\* git() called without an options argument (checkoutPaths)
NoOpts ==
    [env |-> [set |-> FALSE],
     expectedErrors |-> {},
     trackLFSProgress |-> FALSE,
     processCallback |-> FALSE]

\* onProgress naming the local branch instead of the branch passed
onProgressLocalName(progress, b) ==
    IF progress.kind = "progress"
    THEN << [kind |-> "checkout", title |-> Title(b),
             description |-> progress.details.text,
             value |-> progress.percent,
             targetBranch |-> b.nameWithoutRemote] >>
    ELSE << >>

\* onProgress reporting what remains instead of what is done
onProgressRemaining(progress, b) ==
    IF progress.kind = "progress"
    THEN << [kind |-> "checkout", title |-> Title(b),
             description |-> progress.details.text,
             value |-> MaxPercent - progress.percent,
             targetBranch |-> b.name] >>
    ELSE << >>

\* onProgress without the test of progress.kind
onProgressAnyKind(progress, b) ==
    << [kind |-> "checkout", title |-> Title(b),
        description |-> progress.details.text,
        value |-> progress.percent, targetBranch |-> b.name] >>

\* progress => { if (progress.kind === 'progress') progressCallback({...}) }
\* : the events the sink receives for one parser output.
onProgress(progress, b) ==
    IF progress.kind = "progress"
    THEN << [kind |-> "checkout", title |-> Title(b),
             description |-> progress.details.text,
             value |-> progress.percent, targetBranch |-> b.name] >>
    ELSE << >>

\* progressCallback({ kind, title, value: 0, targetBranch })
InitialProgress(b) ==
    [kind |-> "checkout", title |-> Title(b), value |-> 0,
     targetBranch |-> b.name]

\* baseArgs with the flag added whether or not a callback was given
baseArgsAlwaysProgress(networkArguments, hasCallback) ==
    networkArguments \o <<"checkout", "--progress">>

\* const baseArgs = progressCallback != null ? [...] : [...]
baseArgs(networkArguments, hasCallback) ==
    IF hasCallback
    THEN networkArguments \o <<"checkout", "--progress">>
    ELSE networkArguments \o <<"checkout">>

\* getCheckoutArgs with the new branch's name before its start point
getCheckoutArgsSwapped(networkArguments, b, hasCallback) ==
    LET base == IF hasCallback
                THEN networkArguments \o <<"checkout", "--progress">>
                ELSE networkArguments \o <<"checkout">>
    IN  IF b.type = Remote
        THEN base \o <<"-b", b.nameWithoutRemote, b.name, "--">>
        ELSE base \o <<b.name, "--">>

\* getCheckoutArgs, after gitNetworkArguments has resolved
getCheckoutArgs(networkArguments, b, hasCallback) ==
    IF b.type = Remote
    THEN baseArgs(networkArguments, hasCallback)
            \o <<b.name, "-b", b.nameWithoutRemote, "--">>
    ELSE baseArgs(networkArguments, hasCallback) \o <<b.name, "--">>

\* checkoutPathsArgs without the commit to restore from
checkoutPathsArgsNoHead(ps) == <<"checkout", "--">> \o ps

\* ['checkout', 'HEAD', '--', ...paths]
checkoutPathsArgs(ps) == <<"checkout", "HEAD", "--">> \o ps

\* only an authentication failure of git() stops the function
continuesUnlessAuthentication(outcome) == outcome.kind # "AuthenticationError"

\* the rejection of git() swallowed
continuesAlways(outcome) == TRUE

\* await git(...): the function goes on only if the promise resolved
continuesAfterGit(outcome) == outcome.kind = "ok"

\* the submodule step run without asking the feature toggle
runsSubmodulesAlways(flag) == TRUE

\* if (enableRecurseSubmodulesFlag()) { await initAndUpdateSubmodules(..) }
runsSubmodules(flag) == flag

\* the final `return true` forgotten
settleWithoutValue(ok) ==
    IF ok THEN [kind |-> "resolved", value |-> "void"]
    ELSE [kind |-> "rejected", error |-> [kind |-> "SubmoduleError"]]

\* the submodule step not awaited: its failure is lost
settleIgnoringSubmodules(ok) == [kind |-> "resolved", value |-> "true"]

\* await initAndUpdateSubmodules(repository); return true
settleAfterSubmodules(ok) ==
    IF ok THEN [kind |-> "resolved", value |-> "true"]
    ELSE [kind |-> "rejected", error |-> [kind |-> "SubmoduleError"]]

Pending == [kind |-> "pending"]
NoExit == [ended |-> FALSE]

\* ------------------------------------------------------------------ Init
Init ==
    /\ recurseSubmodulesFlag \in BOOLEAN
    /\ pc = [c \in Calls |-> "idle"]
    /\ op = [c \in Calls |-> "none"]
    /\ branch = [c \in Calls |-> NoBranch]
    /\ account = [c \in Calls |-> NoAccount]
    /\ sink = [c \in Calls |-> FALSE]
    /\ opts = [c \in Calls |-> NoOpts]
    /\ parser = [c \in Calls |-> NoParser]
    /\ args = [c \in Calls |-> << >>]
    /\ events = [c \in Calls |-> << >>]
    /\ outputs = [c \in Calls |-> << >>]
    /\ lines = [c \in Calls |-> 0]
    /\ gitCalls = [c \in Calls |-> << >>]
    /\ submoduleCalls = [c \in Calls |-> 0]
    /\ flagReads = [c \in Calls |-> 0]
    /\ paths = [c \in Calls |-> << >>]
    /\ submodules = [c \in Calls |-> "none"]
    /\ exit = [c \in Calls |-> NoExit]
    /\ result = [c \in Calls |-> Pending]

\* --------------------------------------------------------------- actions
\* checkoutBranch is called: lines 54-66, up to the first await. With a
\* sink the call is suspended on executionOptionsWithProgress, without one
\* on gitNetworkArguments inside getCheckoutArgs.
CheckoutBranch(c, b, a, s) ==
    /\ pc[c] = "idle"
    /\ op' = [op EXCEPT ![c] = "checkoutBranch"]
    /\ branch' = [branch EXCEPT ![c] = b]
    /\ account' = [account EXCEPT ![c] = a]
    /\ sink' = [sink EXCEPT ![c] = s]
    /\ opts' = [opts EXCEPT ![c] = InitialOpts(a)]
    /\ parser' = [parser EXCEPT ![c] = IF s THEN NewParser ELSE NoParser]
    /\ pc' = [pc EXCEPT ![c] = IF s THEN "awaitOpts" ELSE "awaitNetworkArgs"]
    /\ UNCHANGED <<recurseSubmodulesFlag, args, events, outputs, lines,
                   gitCalls, submoduleCalls, flagReads, paths, submodules,
                   exit, result>>

\* OptionsResolved delivering the initial progress before and after the
\* await
OptionsResolvedTwice(c) ==
    /\ pc[c] = "awaitOpts"
    /\ opts' = [opts EXCEPT ![c] = ProgressOpts(opts[c])]
    /\ events' = [events EXCEPT ![c] =
                    @ \o <<InitialProgress(branch[c]),
                           InitialProgress(branch[c])>>]
    /\ pc' = [pc EXCEPT ![c] = "awaitNetworkArgs"]
    /\ UNCHANGED <<recurseSubmodulesFlag, op, branch, account, sink, parser,
                   args, outputs, lines, gitCalls, submoduleCalls, flagReads,
                   paths, submodules, exit, result>>

\* OptionsResolved without the initial progress of line 78
OptionsResolvedNoInitial(c) ==
    /\ pc[c] = "awaitOpts"
    /\ opts' = [opts EXCEPT ![c] = ProgressOpts(opts[c])]
    /\ pc' = [pc EXCEPT ![c] = "awaitNetworkArgs"]
    /\ UNCHANGED <<recurseSubmodulesFlag, op, branch, account, sink, parser,
                   args, events, outputs, lines, gitCalls, submoduleCalls,
                   flagReads, paths, submodules, exit, result>>

\* executionOptionsWithProgress resolved: lines 64-86. opts is replaced,
\* the initial progress is delivered, getCheckoutArgs is entered and
\* suspends on gitNetworkArguments.
OptionsResolved(c) ==
    /\ pc[c] = "awaitOpts"
    /\ opts' = [opts EXCEPT ![c] = ProgressOpts(opts[c])]
    /\ events' = [events EXCEPT ![c] = Append(@, InitialProgress(branch[c]))]
    /\ pc' = [pc EXCEPT ![c] = "awaitNetworkArgs"]
    /\ UNCHANGED <<recurseSubmodulesFlag, op, branch, account, sink, parser,
                   args, outputs, lines, gitCalls, submoduleCalls, flagReads,
                   paths, submodules, exit, result>>

\* executionOptionsWithProgress rejected: the rejection leaves
\* checkoutBranch through the await of line 64, before the initial progress
\* of line 78.
OptionsRejected(c) ==
    /\ pc[c] = "awaitOpts"
    /\ pc' = [pc EXCEPT ![c] = "failed"]
    /\ result' = [result EXCEPT ![c] =
                    [kind |-> "rejected",
                     error |-> [kind |-> "ProgressOptionsError"]]]
    /\ UNCHANGED <<recurseSubmodulesFlag, op, branch, account, sink, opts,
                   parser, args, events, outputs, lines, gitCalls,
                   submoduleCalls, flagReads, paths, submodules, exit>>

\* gitNetworkArguments resolved: lines 22-31, getCheckoutArgs returns.
NetworkArgsResolved(c) ==
    /\ pc[c] = "awaitNetworkArgs"
    /\ args' = [args EXCEPT ![c] =
                  getCheckoutArgs(gitNetworkArguments(account[c]), branch[c],
                                  sink[c])]
    /\ pc' = [pc EXCEPT ![c] = "argsBuilt"]
    /\ UNCHANGED <<recurseSubmodulesFlag, op, branch, account, sink, opts,
                   parser, events, outputs, lines, gitCalls, submoduleCalls,
                   flagReads, paths, submodules, exit, result>>

\* gitNetworkArguments rejected: the rejection leaves getCheckoutArgs and
\* checkoutBranch through their awaits (lines 22, 81).
NetworkArgsRejected(c) ==
    /\ pc[c] = "awaitNetworkArgs"
    /\ pc' = [pc EXCEPT ![c] = "failed"]
    /\ result' = [result EXCEPT ![c] =
                    [kind |-> "rejected",
                     error |-> [kind |-> "NetworkArgumentsError"]]]
    /\ UNCHANGED <<recurseSubmodulesFlag, op, branch, account, sink, opts,
                   parser, args, events, outputs, lines, gitCalls,
                   submoduleCalls, flagReads, paths, submodules, exit>>

\* LaunchGit run again after the call failed
LaunchGitRetry(c) ==
    /\ \/ pc[c] = "argsBuilt"
       \/ pc[c] = "failed" /\ exit[c].ended /\ op[c] = "checkoutBranch"
    /\ gitCalls' = [gitCalls EXCEPT ![c] =
                      Append(@, [args |-> args[c], name |-> "checkoutBranch",
                                 opts |-> opts[c]])]
    /\ pc' = [pc EXCEPT ![c] = "running"]
    /\ UNCHANGED <<recurseSubmodulesFlag, op, branch, account, sink, opts,
                   parser, args, events, outputs, lines, submoduleCalls,
                   flagReads, paths, submodules, exit, result>>

\* await getCheckoutArgs(...) resumed: line 88, git is invoked.
LaunchGit(c) ==
    /\ pc[c] = "argsBuilt"
    /\ gitCalls' = [gitCalls EXCEPT ![c] =
                      Append(@, [args |-> args[c], name |-> "checkoutBranch",
                                 opts |-> opts[c]])]
    /\ pc' = [pc EXCEPT ![c] = "running"]
    /\ UNCHANGED <<recurseSubmodulesFlag, op, branch, account, sink, opts,
                   parser, args, events, outputs, lines, submoduleCalls,
                   flagReads, paths, submodules, exit, result>>

\* checkoutPaths is called: lines 105-109, git is invoked at once.
CheckoutPaths(c, ps) ==
    /\ pc[c] = "idle"
    /\ op' = [op EXCEPT ![c] = "checkoutPaths"]
    /\ paths' = [paths EXCEPT ![c] = ps]
    /\ args' = [args EXCEPT ![c] = checkoutPathsArgs(ps)]
    /\ gitCalls' = [gitCalls EXCEPT ![c] =
                      Append(@, [args |-> checkoutPathsArgs(ps),
                                 name |-> "checkoutPaths", opts |-> NoOpts])]
    /\ pc' = [pc EXCEPT ![c] = "running"]
    /\ UNCHANGED <<recurseSubmodulesFlag, branch, account, sink, opts, parser,
                   events, outputs, lines, submoduleCalls, flagReads,
                   submodules, exit, result>>

\* StatusLine with one parser kept for all calls instead of one per call
StatusLineSharedParser(c, line) ==
    /\ pc[c] = "running"
    /\ lines[c] < MaxLines
    /\ lines' = [lines EXCEPT ![c] = @ + 1]
    /\ LET o == gitCalls[c][Len(gitCalls[c])].opts
           shared == CHOOSE d \in Calls : \A e \in Calls : d <= e
       IN  IF o.processCallback
           THEN /\ outputs' = [outputs EXCEPT ![c] =
                                 Append(@, parse(parser[shared], line))]
                /\ parser' = [parser EXCEPT ![shared] = parserAfter(@, line)]
                /\ events' = [events EXCEPT ![c] =
                                @ \o onProgress(parse(parser[shared], line),
                                                branch[c])]
           ELSE UNCHANGED <<outputs, parser, events>>
    /\ UNCHANGED <<recurseSubmodulesFlag, pc, op, branch, account, sink, opts,
                   args, gitCalls, submoduleCalls, flagReads, paths,
                   submodules, exit, result>>

\* The subprocess writes one status line. With a parser attached (the
\* options git was given) the line is parsed and the output handed to the
\* callback of lines 67-74.
StatusLine(c, line) ==
    /\ pc[c] = "running"
    /\ lines[c] < MaxLines
    /\ lines' = [lines EXCEPT ![c] = @ + 1]
    /\ LET o == gitCalls[c][Len(gitCalls[c])].opts
       IN  IF o.processCallback
           THEN /\ outputs' = [outputs EXCEPT ![c] =
                                 Append(@, parse(parser[c], line))]
                /\ parser' = [parser EXCEPT ![c] = parserAfter(@, line)]
                /\ events' = [events EXCEPT ![c] =
                                @ \o onProgress(parse(parser[c], line),
                                                branch[c])]
           ELSE UNCHANGED <<outputs, parser, events>>
    /\ UNCHANGED <<recurseSubmodulesFlag, pc, op, branch, account, sink, opts,
                   args, gitCalls, submoduleCalls, flagReads, paths,
                   submodules, exit, result>>

\* The subprocess ends and the promise of git() settles: lines 88-97 for
\* checkoutBranch, lines 105-110 for checkoutPaths.
GitExit(c, exitCode, stderr) ==
    /\ pc[c] = "running"
    /\ exit' = [exit EXCEPT ![c] =
                  [ended |-> TRUE, exitCode |-> exitCode, stderr |-> stderr]]
    /\ LET outcome == git(gitCalls[c][Len(gitCalls[c])].opts, exitCode, stderr)
       IN  IF ~continuesAfterGit(outcome)
           THEN /\ pc' = [pc EXCEPT ![c] = "failed"]
                /\ result' = [result EXCEPT ![c] =
                                [kind |-> "rejected", error |-> outcome]]
                /\ UNCHANGED <<flagReads, submoduleCalls, submodules>>
           ELSE IF op[c] = "checkoutPaths"
           THEN /\ pc' = [pc EXCEPT ![c] = "done"]
                /\ result' = [result EXCEPT ![c] =
                                [kind |-> "resolved", value |-> "void"]]
                /\ UNCHANGED <<flagReads, submoduleCalls, submodules>>
           ELSE /\ flagReads' = [flagReads EXCEPT ![c] = @ + 1]
                /\ IF runsSubmodules(recurseSubmodulesFlag)
                   THEN /\ submoduleCalls' =
                             [submoduleCalls EXCEPT ![c] = @ + 1]
                        /\ submodules' = [submodules EXCEPT ![c] = "running"]
                        /\ pc' = [pc EXCEPT ![c] = "submodules"]
                        /\ UNCHANGED result
                   ELSE /\ pc' = [pc EXCEPT ![c] = "done"]
                        /\ result' = [result EXCEPT ![c] =
                                        settleAfterSubmodules(TRUE)]
                        /\ UNCHANGED <<submoduleCalls, submodules>>
    /\ UNCHANGED <<recurseSubmodulesFlag, op, branch, account, sink, opts,
                   parser, args, events, outputs, lines, gitCalls, paths>>

\* SubmodulesSettled asking the feature toggle a second time
SubmodulesSettledRereads(c, ok) ==
    /\ pc[c] = "submodules"
    /\ submodules' = [submodules EXCEPT ![c] = IF ok THEN "ok" ELSE "failed"]
    /\ flagReads' = [flagReads EXCEPT ![c] = @ + 1]
    /\ result' = [result EXCEPT ![c] = settleAfterSubmodules(ok)]
    /\ pc' = [pc EXCEPT ![c] = IF settleAfterSubmodules(ok).kind = "resolved"
                                THEN "done" ELSE "failed"]
    /\ UNCHANGED <<recurseSubmodulesFlag, op, branch, account, sink, opts,
                   parser, args, events, outputs, lines, gitCalls,
                   submoduleCalls, paths, exit>>

\* initAndUpdateSubmodules settles: lines 92-97.
SubmodulesSettled(c, ok) ==
    /\ pc[c] = "submodules"
    /\ submodules' = [submodules EXCEPT ![c] = IF ok THEN "ok" ELSE "failed"]
    /\ result' = [result EXCEPT ![c] = settleAfterSubmodules(ok)]
    /\ pc' = [pc EXCEPT ![c] = IF settleAfterSubmodules(ok).kind = "resolved"
                                THEN "done" ELSE "failed"]
    /\ UNCHANGED <<recurseSubmodulesFlag, op, branch, account, sink, opts,
                   parser, args, events, outputs, lines, gitCalls,
                   submoduleCalls, flagReads, paths, exit>>

\* every step call c can take, with every input it can be given
Step(c) ==
    \/ \E b \in Branches, a \in Accounts, s \in BOOLEAN :
          CheckoutBranch(c, b, a, s)
    \/ OptionsResolved(c)
    \/ OptionsRejected(c)
    \/ NetworkArgsResolved(c)
    \/ NetworkArgsRejected(c)
    \/ LaunchGit(c)
    \/ \E ps \in PathLists : CheckoutPaths(c, ps)
    \/ \E line \in StatusLines : StatusLine(c, line)
    \/ \E exitCode \in ExitCodes, stderr \in Stderrs :
          GitExit(c, exitCode, stderr)
    \/ \E ok \in BOOLEAN : SubmodulesSettled(c, ok)

\* One call of checkoutBranch or checkoutPaths, from every input, under
\* either value of the feature toggle.
Next == Step(1)

Spec == Init /\ [][Next]_vars

\* Two calls of checkoutBranch with a sink in flight at once, their steps
\* interleaved in every order; each subprocess writes up to MaxLinesTwo
\* lines and ends with success.
StepTwo(c) ==
    \/ \E b \in Branches : CheckoutBranch(c, b, NoAccount, TRUE)
    \/ OptionsResolved(c)
    \/ OptionsRejected(c)
    \/ NetworkArgsResolved(c)
    \/ LaunchGit(c)
    \/ \E line \in StatusLines : lines[c] < MaxLinesTwo /\ StatusLine(c, line)
    \/ GitExit(c, 0, "")
    \/ \E ok \in BOOLEAN : SubmodulesSettled(c, ok)

NextTwo == \E c \in Calls : StepTwo(c)

SpecTwo == Init /\ [][NextTwo]_vars

\* ---------------------------------------------------------------- claims
HasDescription(e) == "description" \in DOMAIN e

Range(q) == {q[i] : i \in 1..Len(q)}

IsProgress(o) == o.kind = "progress"

\* C1: the first event a sink receives is the contextual event (value 0,
\* no description); every event that carries a description comes after it,
\* and no line is parsed for a sink that has not yet received it.
C1_InitialProgressFirst ==
    \A c \in Calls :
        /\ events[c] # << >> =>
              /\ events[c][1].value = 0
              /\ ~HasDescription(events[c][1])
              /\ \A i \in 1..Len(events[c]) :
                    HasDescription(events[c][i]) => i > 1
        /\ (sink[c] /\ outputs[c] # << >>) => events[c] # << >>

C1_Witness ==
    \E c \in Calls :
        /\ sink[c]
        /\ Len(events[c]) >= 2
        /\ HasDescription(events[c][2])

\* C2: with the toggle on, a checkout that succeeded and a submodule step
\* that failed make checkoutBranch reject with the submodule failure; it
\* does not resolve to true.
C2_CascadeFailureFails ==
    \A c \in Calls :
        ( /\ op[c] = "checkoutBranch"
          /\ recurseSubmodulesFlag
          /\ exit[c].ended
          /\ exit[c].exitCode = 0
          /\ submodules[c] = "failed" )
        => /\ result[c].kind = "rejected"
           /\ result[c].error.kind = "SubmoduleError"

C2_Witness ==
    \E c \in Calls :
        /\ recurseSubmodulesFlag
        /\ exit[c].ended
        /\ exit[c].exitCode = 0
        /\ submodules[c] = "failed"
        /\ pc[c] = "failed"

\* C3: a subprocess of checkoutBranch that fails with a stderr matching one
\* of the AuthenticationErrors makes the call reject with an
\* AuthenticationError carrying the matched reason; the submodule step is
\* not run.
C3_AuthenticationFailure ==
    \A c \in Calls :
        ( /\ op[c] = "checkoutBranch"
          /\ exit[c].ended
          /\ exit[c].exitCode # 0
          /\ parseError(exit[c].stderr) \in AuthenticationErrors )
        => /\ result[c].kind = "rejected"
           /\ result[c].error.kind = "AuthenticationError"
           /\ result[c].error.reason = parseError(exit[c].stderr)
           /\ submoduleCalls[c] = 0
           /\ submodules[c] = "none"

C3_Witness ==
    \E c \in Calls :
        /\ op[c] = "checkoutBranch"
        /\ exit[c].ended
        /\ exit[c].exitCode = 128
        /\ exit[c].stderr = "Permission denied (publickey)"
        /\ result[c].kind = "rejected"

\* C4: with the toggle off the submodule collaborator is never invoked.
C4_ToggleOffNoSubmodules ==
    ~recurseSubmodulesFlag =>
        \A c \in Calls : submoduleCalls[c] = 0 /\ submodules[c] = "none"

C4_Witness ==
    /\ ~recurseSubmodulesFlag
    /\ \E c \in Calls :
          /\ op[c] = "checkoutBranch"
          /\ sink[c]
          /\ exit[c].ended
          /\ exit[c].exitCode = 0
          /\ pc[c] = "done"

\* C5: the values a sink receives, the initial 0 included, never decrease,
\* and the events after the initial one are the parser's progress outputs in
\* the order of the lines they come from.
C5_ValuesNonDecreasing ==
    \A c \in Calls :
        /\ \A i, j \in 1..Len(events[c]) :
              i <= j => events[c][i].value <= events[c][j].value
        /\ sink[c] /\ events[c] # << >> =>
              LET progress == SelectSeq(outputs[c], IsProgress)
              IN  /\ Len(events[c]) = 1 + Len(progress)
                  /\ \A i \in 1..Len(progress) :
                        /\ events[c][i + 1].value = progress[i].percent
                        /\ events[c][i + 1].description =
                              progress[i].details.text

C5_Witness ==
    \E c \in Calls :
        \E i, j \in 2..Len(events[c]) :
            /\ i < j
            /\ events[c][i].description = "Checking out files: 2%"
            /\ events[c][j].description = "Checking out files: 1%"
            /\ events[c][j].value = 2

\* C6: the arguments getCheckoutArgs builds are the network arguments,
\* "checkout", "--progress" when a sink was given, and then
\* name, "-b", nameWithoutRemote, "--" for a Remote branch and name, "--"
\* for any other branch.
C6_CheckoutArgsShape ==
    \A c \in Calls :
        (op[c] = "checkoutBranch" /\ args[c] # << >>) =>
            LET a == args[c]
                n == Len(a)
                b == branch[c]
                head == gitNetworkArguments(account[c]) \o <<"checkout">>
                          \o (IF sink[c] THEN <<"--progress">> ELSE << >>)
            IN  /\ n >= Len(head)
                /\ SubSeq(a, 1, Len(head)) = head
                /\ b.type = Remote =>
                      /\ n = Len(head) + 4
                      /\ SubSeq(a, n - 3, n) =
                            <<b.name, "-b", b.nameWithoutRemote, "--">>
                /\ b.type # Remote =>
                      /\ n = Len(head) + 2
                      /\ SubSeq(a, n - 1, n) = <<b.name, "--">>

C6_Witness ==
    \E c \in Calls :
        /\ branch[c].type = Remote
        /\ ~sink[c]
        /\ args[c] = <<"-c", "credential.helper=", "checkout",
                       "origin/feature-x", "-b", "feature-x", "--">>

\* C7: "--progress" is among the arguments git is given iff a sink was
\* supplied, and iff the options git is given have the parser attached and
\* LFS tracking on.
C7_ProgressFlagIffSink ==
    \A c \in Calls :
        /\ (op[c] = "checkoutBranch" /\ args[c] # << >>) =>
              ("--progress" \in Range(args[c]) <=> sink[c])
        /\ \A k \in 1..Len(gitCalls[c]) :
              gitCalls[c][k].name = "checkoutBranch" =>
                  /\ "--progress" \in Range(gitCalls[c][k].args) <=> sink[c]
                  /\ gitCalls[c][k].opts.processCallback <=> sink[c]
                  /\ gitCalls[c][k].opts.trackLFSProgress <=> sink[c]

C7_Witness ==
    \E c \in Calls :
        /\ sink[c]
        /\ pc[c] = "running"
        /\ "--progress" \in Range(gitCalls[c][1].args)
        /\ gitCalls[c][1].opts.processCallback

\* C8: a subprocess of checkoutBranch that fails with a stderr matching no
\* authentication signature makes the call reject with the GitCommandError
\* of that exit code and stderr.
C8_OtherFailure ==
    \A c \in Calls :
        ( /\ op[c] = "checkoutBranch"
          /\ exit[c].ended
          /\ exit[c].exitCode # 0
          /\ parseError(exit[c].stderr) \notin AuthenticationErrors )
        => result[c] =
              [kind |-> "rejected",
               error |-> [kind |-> "GitCommandError",
                          exitCode |-> exit[c].exitCode,
                          stderr |-> exit[c].stderr]]

C8_Witness ==
    \E c \in Calls :
        /\ op[c] = "checkoutBranch"
        /\ exit[c].ended
        /\ exit[c].exitCode = 1
        /\ exit[c].stderr = "error: pathspec did not match"
        /\ result[c].kind = "rejected"
        /\ result[c].error.kind = "GitCommandError"

\* C9: a parser output of a kind other than "progress" leaves the sink
\* uncalled, and while the subprocess runs the sink is called only for an
\* output of kind "progress".
C9_OnlyProgressForwarded ==
    [][ \A c \in Calls :
          LET n == Len(outputs'[c])
          IN  /\ (n = Len(outputs[c]) + 1 /\ outputs'[c][n].kind # "progress")
                    => events'[c] = events[c]
              /\ (pc[c] = "running" /\ events'[c] # events[c])
                    => /\ n = Len(outputs[c]) + 1
                       /\ outputs'[c][n].kind = "progress" ]_vars

C9_Witness ==
    \E c \in Calls :
        /\ sink[c]
        /\ Len(outputs[c]) >= 2
        /\ outputs[c][1].kind = "context"
        /\ outputs[c][2].kind = "progress"
        /\ Len(events[c]) = 2

\* C10: checkoutPaths invokes git once, with "checkout", "HEAD", "--" and
\* the paths in order, with no options (no parser, no credential
\* environment, no expected errors); it runs no submodule step, resolves
\* when the subprocess succeeds and rejects when it fails.
C10_CheckoutPaths ==
    \A c \in Calls :
        op[c] = "checkoutPaths" =>
            /\ Len(gitCalls[c]) = 1
            /\ gitCalls[c][1].args = <<"checkout", "HEAD", "--">> \o paths[c]
            /\ ~gitCalls[c][1].opts.processCallback
            /\ ~gitCalls[c][1].opts.trackLFSProgress
            /\ ~gitCalls[c][1].opts.env.set
            /\ gitCalls[c][1].opts.expectedErrors = {}
            /\ events[c] = << >>
            /\ outputs[c] = << >>
            /\ submoduleCalls[c] = 0
            /\ flagReads[c] = 0
            /\ (result[c].kind = "resolved") <=>
                  (exit[c].ended /\ exit[c].exitCode = 0)
            /\ (result[c].kind = "rejected") <=>
                  (exit[c].ended /\ exit[c].exitCode # 0)

C10_Witness ==
    \E c \in Calls :
        /\ op[c] = "checkoutPaths"
        /\ paths[c] = <<"a.txt", "b/c.txt">>
        /\ gitCalls[c][1].args =
              <<"checkout", "HEAD", "--", "a.txt", "b/c.txt">>
        /\ result[c].kind = "resolved"

\* C11: the submodule collaborator is invoked only once the checkout
\* subprocess of the same call has ended with success: not before git has
\* settled, not while it runs, not after it failed.
C11_SubmodulesAfterCheckout ==
    [][ \A c \in Calls :
          /\ submoduleCalls'[c] # submoduleCalls[c] =>
                /\ pc[c] = "running"
                /\ pc'[c] # "running"
                /\ exit'[c].ended
                /\ exit'[c].exitCode = 0
          /\ submodules'[c] # "none" =>
                /\ exit'[c].ended
                /\ exit'[c].exitCode = 0
                /\ pc'[c] \notin {"idle", "awaitOpts", "awaitNetworkArgs",
                                  "argsBuilt", "running"} ]_vars

C11_Witness ==
    \E c \in Calls :
        /\ submodules[c] = "running"
        /\ submoduleCalls[c] = 1
        /\ exit[c].ended
        /\ exit[c].exitCode = 0
        /\ lines[c] > 0

Contextual(q) == {i \in 1..Len(q) : ~HasDescription(q[i])}

\* the await of line 64 has resolved for call c
OptionsAwaited(c) ==
    /\ sink[c]
    /\ pc[c] \notin {"idle", "awaitOpts"}
    /\ ~(result[c].kind = "rejected"
            /\ result[c].error.kind = "ProgressOptionsError")

\* C12 as stated: every call with a sink that has ended has delivered the
\* zero-value contextual event exactly once.
C12_InitialProgressExactlyOnce ==
    \A c \in Calls :
        (op[c] = "checkoutBranch" /\ sink[c] /\ pc[c] \in {"done", "failed"})
        => Cardinality(Contextual(events[c])) = 1

\* C12 as amended: with a sink the zero-value contextual event is delivered
\* at most once per call, at a moment when the arguments are not yet built
\* and git is not yet invoked: exactly once as soon as
\* executionOptionsWithProgress has resolved, and not at all before that or
\* when it rejects.
C12_InitialProgressOnceBeforeLaunch ==
    [][ \A c \in Calls :
          /\ Cardinality(Contextual(events'[c])) <= 1
          /\ Contextual(events'[c]) # Contextual(events[c]) =>
                /\ args[c] = << >> /\ args'[c] = << >>
                /\ gitCalls[c] = << >> /\ gitCalls'[c] = << >>
          /\ IF OptionsAwaited(c)'
             THEN /\ Cardinality(Contextual(events'[c])) = 1
                  /\ events'[c][1].value = 0
                  /\ ~HasDescription(events'[c][1])
             ELSE events'[c] = << >> ]_vars

C12_Witness ==
    \E c \in Calls :
        /\ sink[c]
        /\ pc[c] = "awaitNetworkArgs"
        /\ Len(events[c]) = 1
        /\ args[c] = << >>
        /\ gitCalls[c] = << >>

\* C13: every parser output of kind "progress" gives exactly one event with
\* that output's percent as value and its text as description, and every
\* event of a call has kind "checkout", title "Checking out branch <name>"
\* and targetBranch <name> for the name of the branch passed to the call.
C13_EventFields ==
    \A c \in Calls :
        /\ \A i \in 1..Len(events[c]) :
              /\ events[c][i].kind = "checkout"
              /\ events[c][i].title = "Checking out branch " \o branch[c].name
              /\ events[c][i].targetBranch = branch[c].name
        /\ sink[c] /\ events[c] # << >> =>
              LET progress == SelectSeq(outputs[c], IsProgress)
              IN  /\ Len(events[c]) = 1 + Len(progress)
                  /\ \A i \in 1..Len(progress) :
                        events[c][i + 1] =
                            [kind |-> "checkout",
                             title |-> events[c][1].title,
                             description |-> progress[i].details.text,
                             value |-> progress[i].percent,
                             targetBranch |-> events[c][1].targetBranch]

C13_Witness ==
    \E c \in Calls :
        /\ Len(events[c]) = 3
        /\ events[c][1] =
              [kind |-> "checkout",
               title |-> "Checking out branch origin/feature-x",
               value |-> 0, targetBranch |-> "origin/feature-x"]
        /\ events[c][3] =
              [kind |-> "checkout",
               title |-> "Checking out branch origin/feature-x",
               description |-> "Checking out files: 1%",
               value |-> 1, targetBranch |-> "origin/feature-x"]

\* C14: a call invokes git at most once and the submodule step at most
\* once; a call that failed has rejected, and takes no further step.
C14_NoRetry ==
    [][ \A c \in Calls :
          /\ Len(gitCalls'[c]) <= 1
          /\ submoduleCalls'[c] <= 1
          /\ pc'[c] = "failed" => result'[c].kind = "rejected"
          /\ pc[c] = "failed" =>
                /\ pc'[c] = "failed"
                /\ result'[c] = result[c]
                /\ gitCalls'[c] = gitCalls[c]
                /\ submoduleCalls'[c] = submoduleCalls[c] ]_vars

C14_Witness ==
    \E c \in Calls :
        /\ op[c] = "checkoutBranch"
        /\ pc[c] = "failed"
        /\ submodules[c] = "failed"
        /\ Len(gitCalls[c]) = 1
        /\ submoduleCalls[c] = 1
        /\ sink[c]

\* the status line whose text a parser output carries
LineOf(o) == CHOOSE l \in StatusLines : l.text = o.details.text

\* the highest percentage among the first j lines of call c that carry one
OwnHighest(c, j) ==
    LET own == {LineOf(outputs[c][i]).pct :
                    i \in {k \in 1..j : LineOf(outputs[c][k]).known}}
    IN  CHOOSE m \in own : \A n \in own : n <= m

\* C15: parse state belongs to one call. With two calls in flight, every
\* progress output of a call carries the highest percentage of that call's
\* own lines so far, and its events are those outputs, whatever the other
\* call has parsed; a call that has parsed nothing has a fresh parser.
C15_ParserPerCall ==
    \A c \in Calls :
        /\ \A j \in 1..Len(outputs[c]) :
              outputs[c][j].kind = "progress" =>
                  outputs[c][j].percent = OwnHighest(c, j)
        /\ sink[c] /\ events[c] # << >> =>
              LET progress == SelectSeq(outputs[c], IsProgress)
              IN  /\ Len(events[c]) = 1 + Len(progress)
                  /\ \A i \in 1..Len(progress) :
                        events[c][i + 1].value = progress[i].percent
        /\ (sink[c] /\ outputs[c] = << >>) => parser[c] = NewParser

C15_Witness ==
    \E c, d \in Calls :
        /\ c # d
        /\ pc[c] = "running" /\ pc[d] = "running"
        /\ Len(events[c]) = 2 /\ events[c][2].value = 2
        /\ Len(events[d]) = 3
        /\ events[d][2].value = 0 /\ events[d][3].value = 1

\* C16 as stated: the toggle is read once in every call, the calls whose
\* checkout subprocess failed included.
C16_ReadOnceOnEveryPath ==
    \A c \in Calls :
        (op[c] = "checkoutBranch" /\ exit[c].ended
            /\ pc[c] \in {"submodules", "done", "failed"})
        => flagReads[c] = 1

\* C16 as amended: the toggle is never written, and a call reads it at most
\* once: once when its checkout subprocess has succeeded, and not at all
\* before that nor when the subprocess or the building of the arguments
\* failed.
C16_ToggleReadAtMostOnce ==
    [][ /\ recurseSubmodulesFlag' = recurseSubmodulesFlag
        /\ \A c \in Calls :
              flagReads'[c] =
                  IF /\ op'[c] = "checkoutBranch"
                     /\ exit'[c].ended
                     /\ exit'[c].exitCode = 0
                  THEN 1 ELSE 0 ]_vars

C16_Witness ==
    \E c \in Calls :
        /\ flagReads[c] = 1
        /\ recurseSubmodulesFlag
        /\ pc[c] = "done"
        /\ submodules[c] = "ok"

\* the checkout subprocess of c succeeded and, if the toggle is on, so did
\* the submodule step
CheckoutComplete(c) ==
    /\ exit[c].ended
    /\ exit[c].exitCode = 0
    /\ (~recurseSubmodulesFlag \/ submodules[c] = "ok")

\* C17: checkoutBranch resolves, and then to true, exactly when git
\* completed without failure and the toggle is off or the submodule step
\* completed without failure; a call that ended otherwise has rejected.
C17_TrueExactlyOnSuccess ==
    \A c \in Calls :
        op[c] = "checkoutBranch" =>
            /\ (result[c].kind = "resolved") <=> CheckoutComplete(c)
            /\ result[c].kind = "resolved" => result[c].value = "true"
            /\ (pc[c] \in {"done", "failed"} /\ ~CheckoutComplete(c)) =>
                  /\ result[c].kind = "rejected"
                  /\ pc[c] = "failed"

C17_Witness ==
    \E c \in Calls :
        /\ op[c] = "checkoutBranch"
        /\ result[c] = [kind |-> "resolved", value |-> "true"]
        /\ recurseSubmodulesFlag
        /\ submodules[c] = "ok"
        /\ ~sink[c]

\* C18: when gitNetworkArguments rejects, checkoutBranch rejects with git
\* and the submodule step never invoked; a sink has by then received the
\* zero-value contextual event and nothing else.
C18_ArgsFailure ==
    \A c \in Calls :
        (result[c].kind = "rejected"
            /\ result[c].error.kind = "NetworkArgumentsError") =>
            /\ op[c] = "checkoutBranch"
            /\ pc[c] = "failed"
            /\ args[c] = << >>
            /\ gitCalls[c] = << >>
            /\ ~exit[c].ended
            /\ submoduleCalls[c] = 0
            /\ submodules[c] = "none"
            /\ IF sink[c]
               THEN /\ Len(events[c]) = 1
                    /\ events[c][1].value = 0
                    /\ ~HasDescription(events[c][1])
               ELSE events[c] = << >>

C18_Witness ==
    \E c \in Calls :
        /\ result[c].kind = "rejected"
        /\ result[c].error.kind = "NetworkArgumentsError"
        /\ sink[c]
        /\ Len(events[c]) = 1
        /\ gitCalls[c] = << >>

\* C19: without a sink git is given the credential environment and the
\* expected authentication errors and nothing else (no parser, no LFS
\* tracking), no line is parsed and no event is delivered.
C19_NoSinkNoProgress ==
    \A c \in Calls :
        (op[c] = "checkoutBranch" /\ ~sink[c]) =>
            /\ events[c] = << >>
            /\ outputs[c] = << >>
            /\ \A k \in 1..Len(gitCalls[c]) :
                  /\ gitCalls[c][k].opts.env.set
                  /\ gitCalls[c][k].opts.env.user = account[c].login
                  /\ gitCalls[c][k].opts.expectedErrors = AuthenticationErrors
                  /\ ~gitCalls[c][k].opts.processCallback
                  /\ ~gitCalls[c][k].opts.trackLFSProgress

C19_Witness ==
    \E c \in Calls :
        /\ op[c] = "checkoutBranch"
        /\ ~sink[c]
        /\ lines[c] = 2
        /\ pc[c] = "done"
        /\ events[c] = << >>
        /\ ~gitCalls[c][1].opts.processCallback

====
